---- MODULE Spec2Model ----
(***************************************************************************)
(* EmbeddedProto, src/FieldStringBytes.h: the fixed-capacity string/bytes  *)
(* field FieldStringBytes<MAX_LENGTH, DATA_TYPE> with its specializations  *)
(* FieldString and FieldBytes, and the length-delimited wire encoding it   *)
(* implements on top of WireFormatter and the read/write buffer            *)
(* interfaces.                                                             *)
(***************************************************************************)
EXTENDS Integers, Sequences, FiniteSets, TLC

VARIABLES
    MAX_LENGTH,       \* template parameter: the capacity of the field under test
    current_length_,  \* FieldStringBytes::current_length_
    data_,            \* FieldStringBytes::data_, indexed 0..MAX_LENGTH-1
    call,             \* the last call made on the field, with its arguments
    return_value,     \* what that call returned
    wbuf,             \* the output transport handed to that call, as the call left it
    rbuf,             \* the input transport handed to that call, as the call left it
    lastIndex,        \* history: i when get(0), .., get(i) were the calls since clear(); -1 when fresh; else -2
    pc,               \* position in the round-trip scenario ("run" outside of it)
    rx_length,        \* round trip: current_length_ of the receiving field
    rx_data,          \* round trip: data_ of the receiving field
    rx_return         \* round trip: what the receiving field's deserialize_check_type returned

vars == <<MAX_LENGTH, current_length_, data_, call, return_value,
          wbuf, rbuf, lastIndex, pc, rx_length, rx_data, rx_return>>

----------------------------------------------------------------------------
(* Bounds of the model *)

\* Capacities 1..MaxCapacity are instantiated.
MaxCapacity == 2

\* Byte values that occur as payload, on the wire and in assignments.
DataBytes == {0, 65, 200}

\* template parameter: the element type; FieldString instantiates char, whose
\* conversions from and to wire bytes are not the identity.
DATA_TYPE == "char"

\* Field numbers passed to serialize_with_id: a one-byte and a two-byte tag.
FieldNumbers == {1, 16}

\* An index far beyond every capacity, passed to get().
FarIndex == 1000

Min(a, b) == IF a < b THEN a ELSE b

\* All sequences over S of length lo..hi.
SeqsOf(S, lo, hi) == UNION {[1..n -> S] : n \in lo..hi}

----------------------------------------------------------------------------
(* Error codes, Errors.h *)

NO_ERRORS == "NO_ERRORS"
END_OF_BUFFER == "END_OF_BUFFER"
BUFFER_FULL == "BUFFER_FULL"
INVALID_WIRETYPE == "INVALID_WIRETYPE"
ARRAY_FULL == "ARRAY_FULL"
INDEX_OUT_OF_BOUND == "INDEX_OUT_OF_BOUND"

(* WireFormatter::WireType *)
VARINT == 0
FIXED64 == 1
LENGTH_DELIMITED == 2
FIXED32 == 5

WireTypes == {VARINT, FIXED64, LENGTH_DELIMITED, FIXED32}

----------------------------------------------------------------------------
(* Element conversions *)

\* static_cast<DATA_TYPE>(byte): a char is signed, a uint8_t keeps the value.
ToData(type, byte) ==
    IF type = "char" /\ byte >= 128 THEN byte - 256 ELSE byte

\* Reading an element's storage through a const uint8_t*.
ToByte(elem) == IF elem < 0 THEN elem + 256 ELSE elem

\* The element values of the instantiated DATA_TYPE.
Elems(type) == {ToData(type, b) : b \in DataBytes}

----------------------------------------------------------------------------
(* WriteBufferInterface: a transport is [bytes, size], size its total room *)

get_available_size(buffer) == buffer.size - Len(buffer.bytes)

\* push(bytes, length): all of the bytes or none.
push(buffer, bytes) ==
    IF Len(bytes) <= get_available_size(buffer)
    THEN [ok |-> TRUE, buffer |-> [buffer EXCEPT !.bytes = @ \o bytes]]
    ELSE [ok |-> FALSE, buffer |-> buffer]

(* ReadBufferInterface: a transport is the sequence of bytes left to pop *)

----------------------------------------------------------------------------
(* WireFormatter *)

\* (field_number << 3) | wire_type; the field numbers used stay far below 2^29.
MakeTag(field_number, wire_type) == (field_number * 8) + wire_type

\* Base-128 little-endian encoding, continuation bit 0x80.
RECURSIVE VarintBytes(_)
VarintBytes(value) ==
    IF value < 128 THEN <<value>>
    ELSE <<(value % 128) + 128>> \o VarintBytes(value \div 128)

SerializeVarint(value, buffer) ==
    LET r == push(buffer, VarintBytes(value))
    IN  [ret |-> IF r.ok THEN NO_ERRORS ELSE BUFFER_FULL, buffer |-> r.buffer]

\* Pops bytes up to and including the first one without the continuation bit.
\* The streams used hold varints of at most two bytes, far below 32 bits.
RECURSIVE VarintLoop(_, _, _)
VarintLoop(buffer, temp_value, scale) ==
    IF buffer = <<>> THEN
        [ret |-> END_OF_BUFFER, value |-> 0, buffer |-> buffer]
    ELSE
        LET byte == Head(buffer)
            v    == temp_value + (byte % 128) * scale
        IN  IF byte < 128
            THEN [ret |-> NO_ERRORS, value |-> v, buffer |-> Tail(buffer)]
            ELSE VarintLoop(Tail(buffer), v, scale * 128)

DeserializeVarint(buffer) == VarintLoop(buffer, 0, 1)

----------------------------------------------------------------------------
(* FieldStringBytes<MAX_LENGTH, DATA_TYPE> *)

ZeroData == [i \in 0..(MAX_LENGTH - 1) |-> 0]

\* Mutant of get: the index is not limited to the last slot.
get_unlimited(cl, index) ==
    [len |-> IF index >= cl THEN index + 1 ELSE cl, ref |-> index]

\* Mutant of get: the length grows only when the index is beyond it.
get_grows_late(cl, index) ==
    LET limited_index == Min(index, MAX_LENGTH - 1)
    IN  [len |-> IF limited_index > cl THEN limited_index + 1 ELSE cl,
         ref |-> limited_index]

\* Mutant of get: the length is set from the index on every access.
get_sets_length(cl, index) ==
    LET limited_index == Min(index, MAX_LENGTH - 1)
    IN  [len |-> limited_index + 1, ref |-> limited_index]

\* get(index): the new current_length_ and the slot the returned reference names.
get(cl, index) ==
    LET limited_index == Min(index, MAX_LENGTH - 1)
    IN  [len |-> IF limited_index >= cl THEN limited_index + 1 ELSE cl,
         ref |-> limited_index]

\* get_const(index): the element at the index limited to the last slot.
get_const(d, index) ==
    LET limited_index == Min(index, MAX_LENGTH - 1)
    IN  d[limited_index]

\* Mutant of the checked get_const: the index is compared with the capacity.
get_const_checked_by_capacity(cl, d, index, value) ==
    IF index < MAX_LENGTH
    THEN [ret |-> NO_ERRORS, value |-> d[index]]
    ELSE [ret |-> INDEX_OUT_OF_BOUND, value |-> value]

\* get_const(index, value): value is the caller's variable, written on success only.
get_const_checked(cl, d, index, value) ==
    IF index < cl
    THEN [ret |-> NO_ERRORS, value |-> d[index]]
    ELSE [ret |-> INDEX_OUT_OF_BOUND, value |-> value]

\* memcpy(data_.data(), data, length); data is a sequence, 1-based.
memcpy(dst, src, n) ==
    [i \in DOMAIN dst |-> IF i < n THEN src[i + 1] ELSE dst[i]]

\* Mutant of set: copies what fits before it reports ARRAY_FULL.
set_copies_what_fits(cl, d, data, length) ==
    LET n == Min(length, MAX_LENGTH)
    IN  [ret |-> IF MAX_LENGTH >= length THEN NO_ERRORS ELSE ARRAY_FULL,
         len |-> n, data |-> memcpy(d, data, n)]

\* Mutant of set: the elements after the copied ones are zeroed.
set_zero_pads(cl, d, data, length) ==
    IF MAX_LENGTH >= length
    THEN [ret |-> NO_ERRORS, len |-> length,
          data |-> [i \in DOMAIN d |-> IF i < length THEN data[i + 1] ELSE 0]]
    ELSE [ret |-> ARRAY_FULL, len |-> cl, data |-> d]

\* set(const DATA_TYPE* data, const uint32_t length)
set(cl, d, data, length) ==
    IF MAX_LENGTH >= length
    THEN [ret |-> NO_ERRORS, len |-> length, data |-> memcpy(d, data, length)]
    ELSE [ret |-> ARRAY_FULL, len |-> cl, data |-> d]

\* Mutant of serialize: pushes the whole array, not the first current_length_ elements.
serialize_whole_array(cl, d, buffer) ==
    LET r == push(buffer, [i \in 1..MAX_LENGTH |-> ToByte(d[i - 1])])
    IN  [ret |-> IF r.ok THEN NO_ERRORS ELSE BUFFER_FULL, buffer |-> r.buffer]

\* serialize(buffer): one push of the first current_length_ elements.
serialize(cl, d, buffer) ==
    LET r == push(buffer, [i \in 1..cl |-> ToByte(d[i - 1])])
    IN  [ret |-> IF r.ok THEN NO_ERRORS ELSE BUFFER_FULL, buffer |-> r.buffer]

\* Mutant of serialize_with_id: no check of the available size before writing.
serialize_with_id_unchecked(cl, d, field_number, buffer, optional) ==
    IF (0 < cl) \/ optional THEN
        LET t == SerializeVarint(MakeTag(field_number, LENGTH_DELIMITED), buffer)
            l == IF t.ret = NO_ERRORS THEN SerializeVarint(cl, t.buffer) ELSE t
        IN  IF l.ret = NO_ERRORS /\ 0 < cl
            THEN serialize(cl, d, l.buffer)
            ELSE l
    ELSE [ret |-> NO_ERRORS, buffer |-> buffer]

\* Mutant of serialize_with_id: an empty field is never emitted, optional or not.
serialize_with_id_ignores_optional(cl, d, field_number, buffer, optional) ==
    IF 0 < cl THEN
        IF cl <= get_available_size(buffer) THEN
            LET t == SerializeVarint(MakeTag(field_number, LENGTH_DELIMITED), buffer)
                l == IF t.ret = NO_ERRORS THEN SerializeVarint(cl, t.buffer) ELSE t
            IN  IF l.ret = NO_ERRORS
                THEN serialize(cl, d, l.buffer)
                ELSE l
        ELSE [ret |-> BUFFER_FULL, buffer |-> buffer]
    ELSE [ret |-> NO_ERRORS, buffer |-> buffer]

\* Mutant of serialize_with_id: the length is written whether or not the tag was.
serialize_with_id_keeps_going(cl, d, field_number, buffer, optional) ==
    IF (0 < cl) \/ optional THEN
        IF cl <= get_available_size(buffer) THEN
            LET t == SerializeVarint(MakeTag(field_number, LENGTH_DELIMITED), buffer)
                l == SerializeVarint(cl, t.buffer)
            IN  IF l.ret = NO_ERRORS /\ 0 < cl
                THEN serialize(cl, d, l.buffer)
                ELSE l
        ELSE [ret |-> BUFFER_FULL, buffer |-> buffer]
    ELSE [ret |-> NO_ERRORS, buffer |-> buffer]

\* serialize_with_id(field_number, buffer, optional)
serialize_with_id(cl, d, field_number, buffer, optional) ==
    IF (0 < cl) \/ optional THEN
        IF cl <= get_available_size(buffer) THEN
            LET t == SerializeVarint(MakeTag(field_number, LENGTH_DELIMITED), buffer)
                l == IF t.ret = NO_ERRORS THEN SerializeVarint(cl, t.buffer) ELSE t
            IN  IF l.ret = NO_ERRORS /\ 0 < cl
                THEN serialize(cl, d, l.buffer)
                ELSE l
        ELSE [ret |-> BUFFER_FULL, buffer |-> buffer]
    ELSE [ret |-> NO_ERRORS, buffer |-> buffer]

\* clear(): data_.fill(0), current_length_ = 0.
clear == [len |-> 0, data |-> ZeroData]

\* Mutant of the loop of deserialize: pops before it compares the length.
RECURSIVE ReadLoop_pops_first(_, _, _, _, _)
ReadLoop_pops_first(type, cl, d, availiable, buffer) ==
    IF buffer # <<>> THEN
        IF cl < availiable
        THEN ReadLoop_pops_first(type, cl + 1, [d EXCEPT ![cl] = ToData(type, Head(buffer))],
                                 availiable, Tail(buffer))
        ELSE [len |-> cl, data |-> d, buffer |-> Tail(buffer)]
    ELSE [len |-> cl, data |-> d, buffer |-> buffer]

\* The while loop of deserialize: pop while current_length_ < availiable.
RECURSIVE ReadLoop(_, _, _, _, _)
ReadLoop(type, cl, d, availiable, buffer) ==
    IF cl < availiable /\ buffer # <<>>
    THEN ReadLoop(type, cl + 1, [d EXCEPT ![cl] = ToData(type, Head(buffer))],
                  availiable, Tail(buffer))
    ELSE [len |-> cl, data |-> d, buffer |-> buffer]

\* Mutant of deserialize: a length equal to the capacity is refused.
deserialize_capacity_exclusive(type, cl, d, buffer) ==
    LET v == DeserializeVarint(buffer)
    IN  IF v.ret = NO_ERRORS THEN
            IF MAX_LENGTH > v.value THEN
                LET r == ReadLoop(type, clear.len, clear.data, v.value, v.buffer)
                IN  [ret |-> IF r.len # v.value THEN END_OF_BUFFER ELSE NO_ERRORS,
                     len |-> r.len, data |-> r.data, buffer |-> r.buffer]
            ELSE [ret |-> ARRAY_FULL, len |-> cl, data |-> d, buffer |-> v.buffer]
        ELSE [ret |-> v.ret, len |-> cl, data |-> d, buffer |-> v.buffer]

\* Mutant of deserialize: clears the field before it compares the length.
deserialize_clears_first(type, cl, d, buffer) ==
    LET v == DeserializeVarint(buffer)
    IN  IF v.ret = NO_ERRORS THEN
            IF MAX_LENGTH >= v.value THEN
                LET r == ReadLoop(type, clear.len, clear.data, v.value, v.buffer)
                IN  [ret |-> IF r.len # v.value THEN END_OF_BUFFER ELSE NO_ERRORS,
                     len |-> r.len, data |-> r.data, buffer |-> r.buffer]
            ELSE [ret |-> ARRAY_FULL, len |-> clear.len, data |-> clear.data,
                  buffer |-> v.buffer]
        ELSE [ret |-> v.ret, len |-> cl, data |-> d, buffer |-> v.buffer]

\* Mutant of deserialize: the number of elements read is not compared in the end.
deserialize_unverified(type, cl, d, buffer) ==
    LET v == DeserializeVarint(buffer)
    IN  IF v.ret = NO_ERRORS THEN
            IF MAX_LENGTH >= v.value THEN
                LET r == ReadLoop(type, clear.len, clear.data, v.value, v.buffer)
                IN  [ret |-> NO_ERRORS,
                     len |-> r.len, data |-> r.data, buffer |-> r.buffer]
            ELSE [ret |-> ARRAY_FULL, len |-> cl, data |-> d, buffer |-> v.buffer]
        ELSE [ret |-> v.ret, len |-> cl, data |-> d, buffer |-> v.buffer]

\* Mutant of deserialize: a stream that ends early gives the field its old
\* length and content back.
deserialize_rolls_back(type, cl, d, buffer) ==
    LET v == DeserializeVarint(buffer)
    IN  IF v.ret = NO_ERRORS THEN
            IF MAX_LENGTH >= v.value THEN
                LET r == ReadLoop(type, clear.len, clear.data, v.value, v.buffer)
                IN  IF r.len # v.value
                    THEN [ret |-> END_OF_BUFFER, len |-> cl, data |-> d,
                          buffer |-> r.buffer]
                    ELSE [ret |-> NO_ERRORS,
                          len |-> r.len, data |-> r.data, buffer |-> r.buffer]
            ELSE [ret |-> ARRAY_FULL, len |-> cl, data |-> d, buffer |-> v.buffer]
        ELSE [ret |-> v.ret, len |-> cl, data |-> d, buffer |-> v.buffer]

\* deserialize(buffer)
deserialize(type, cl, d, buffer) ==
    LET v == DeserializeVarint(buffer)
    IN  IF v.ret = NO_ERRORS THEN
            IF MAX_LENGTH >= v.value THEN
                LET r == ReadLoop(type, clear.len, clear.data, v.value, v.buffer)
                IN  [ret |-> IF r.len # v.value THEN END_OF_BUFFER ELSE NO_ERRORS,
                     len |-> r.len, data |-> r.data, buffer |-> r.buffer]
            ELSE [ret |-> ARRAY_FULL, len |-> cl, data |-> d, buffer |-> v.buffer]
        ELSE [ret |-> v.ret, len |-> cl, data |-> d, buffer |-> v.buffer]

\* Mutant of deserialize_check_type: the wire type is not looked at.
deserialize_check_type_any_wire_type(type, cl, d, buffer, wire_type) ==
    deserialize(type, cl, d, buffer)

deserialize_check_type(type, cl, d, buffer, wire_type) ==
    IF LENGTH_DELIMITED = wire_type
    THEN deserialize(type, cl, d, buffer)
    ELSE [ret |-> INVALID_WIRETYPE, len |-> cl, data |-> d, buffer |-> buffer]

\* set_length(length)
set_length(length) == Min(length, MAX_LENGTH)

\* strncpy(this->get(), str, n): n characters of str, zero-padded after its end.
strncpy(dst, str, n) ==
    [i \in DOMAIN dst |->
        IF i < n THEN (IF i < Len(str) THEN str[i + 1] ELSE 0) ELSE dst[i]]

\* A const char*: the null pointer, or a string given by its characters before
\* the terminator.
NULLPTR == [null |-> TRUE, chars |-> <<>>]

\* strlen(str)
strlen(str) == Len(str.chars)

\* Mutant of FieldString::set(str): the terminator is never copied.
set_str_unterminated(cl, d, str) ==
    IF ~str.null THEN
        LET length == set_length(strlen(str))
        IN  [len |-> length, data |-> strncpy(d, str.chars, length)]
    ELSE clear

\* FieldString::set(const char* const str)
set_str(cl, d, str) ==
    IF ~str.null THEN
        LET str_MAX_LENGTH == strlen(str)
            length         == set_length(str_MAX_LENGTH)
            this_length    == IF MAX_LENGTH > length THEN length + 1 ELSE length
        IN  [len |-> length, data |-> strncpy(d, str.chars, this_length)]
    ELSE clear

\* set(const FieldStringBytes<RHS_LENGTH, DATA_TYPE>& rhs)
set_rhs(cl, d, rhs) == set(cl, d, rhs.data, rhs.length)

\* What operator= hands back: a reference to the target, no Error.
THIS == "*this"

\* Mutant of operator=: a source that is too long is cut to the capacity.
operator_assign_truncates(cl, d, rhs) ==
    LET r == set(cl, d, rhs.data, Min(rhs.length, MAX_LENGTH))
    IN  [len |-> r.len, data |-> r.data]

\* operator=(const FieldString<RHS_LENGTH>& rhs), operator=(const FieldBytes<RHS_LENGTH>& rhs):
\* the Error of set is dropped.
operator_assign(cl, d, rhs) ==
    LET r == set(cl, d, rhs.data, rhs.length)
    IN  [len |-> r.len, data |-> r.data]

----------------------------------------------------------------------------
(* Inputs *)

GetIndices == (0..(MAX_LENGTH + 1)) \cup {FarIndex}

\* Arrays handed to set(data, length): every array that fits, and arrays one
\* element too long.
SetInputs ==
    SeqsOf(Elems(DATA_TYPE), 0, MAX_LENGTH)
        \cup {[i \in 1..(MAX_LENGTH + 1) |-> e] : e \in Elems(DATA_TYPE)}

\* Right-hand sides of set(rhs): a field of capacity RHS_LENGTH (smaller than,
\* equal to or larger than this one) that was assigned p after construction.
RhsFields ==
    UNION {{[max |-> R, length |-> Len(p),
             data |-> [i \in 1..R |-> IF i <= Len(p) THEN p[i] ELSE 0]] :
               p \in SeqsOf(Elems(DATA_TYPE) \ {0}, 0, R)} :
           R \in {1, MAX_LENGTH, MAX_LENGTH + 1}}

\* The strings handed to FieldString::set(str).
CStrings ==
    {[null |-> FALSE, chars |-> c] : c \in SeqsOf(Elems("char") \ {0}, 0, MAX_LENGTH + 1)}
        \cup {NULLPTR}

\* Output transports: empty with room 0..MAX_LENGTH+4, or holding one byte
\* already with room for it and for 1, MAX_LENGTH+1 or MAX_LENGTH+3 more.
WriteBuffers ==
    {[bytes |-> <<>>, size |-> room] : room \in 0..(MAX_LENGTH + 4)}
        \cup {[bytes |-> <<255>>, size |-> 1 + room] :
                 room \in {1, MAX_LENGTH + 1, MAX_LENGTH + 3}}

\* Lengths an input stream declares: those that fit, one too many, a two-byte varint.
DeclaredLengths == (0..(MAX_LENGTH + 1)) \cup {200}

\* Input streams: the empty stream; a varint cut short; a length varint N that
\* fits followed by at most N payload bytes, or by N payload bytes and one byte
\* of a sibling field; a length varint N that does not fit followed by no or
\* one payload byte.
ReadBuffers ==
    {<<>>, <<128>>} \cup
    UNION {IF N <= MAX_LENGTH
           THEN {VarintBytes(N) \o p : p \in SeqsOf(DataBytes, 0, N)}
                  \cup {VarintBytes(N) \o p \o <<65>> : p \in SeqsOf(DataBytes, N, N)}
           ELSE {VarintBytes(N), VarintBytes(N) \o <<65>>} :
           N \in DeclaredLengths}

\* Input streams handed over with a wire type other than LENGTH_DELIMITED.
OtherReadBuffers == {<<>>, <<1, 65>>, <<2, 65, 200, 0>>}

\* What the caller's variable holds before get_const(index, value): no element value.
OutValues == {7}

NoWriteBuffer == [bytes |-> <<>>, size |-> 0]

----------------------------------------------------------------------------
(* The field under arbitrary sequences of public calls *)

Init ==
    /\ MAX_LENGTH \in 1..MaxCapacity
    /\ current_length_ = 0
    /\ data_ = [i \in 0..(MAX_LENGTH - 1) |-> 0]
    /\ call = [op |-> "construct"]
    /\ return_value = NO_ERRORS
    /\ wbuf = NoWriteBuffer
    /\ rbuf = <<>>
    /\ lastIndex = -1
    /\ pc = "run"
    /\ rx_length = 0
    /\ rx_data = [i \in 0..(MAX_LENGTH - 1) |-> 0]
    /\ rx_return = NO_ERRORS

Fixed == UNCHANGED <<MAX_LENGTH, pc, rx_length, rx_data, rx_return>>

\* field.get(index) / field[index]
Get ==
    /\ pc = "run"
    /\ \E index \in GetIndices :
          LET r == get(current_length_, index)
          IN  /\ current_length_' = r.len
              /\ call' = [op |-> "get", index |-> index, ref |-> r.ref,
                           length_before |-> current_length_]
              /\ lastIndex' = IF lastIndex >= -1 /\ index = lastIndex + 1 THEN index ELSE -2
    /\ return_value' = NO_ERRORS
    /\ wbuf' = NoWriteBuffer /\ rbuf' = <<>>
    /\ UNCHANGED data_
    /\ Fixed

\* field[index] = value: the caller assigns through the reference get returned.
AssignThroughReference ==
    /\ pc = "run"
    /\ call.op = "get"
    /\ \E value \in Elems(DATA_TYPE) :
          /\ data_' = [data_ EXCEPT ![call.ref] = value]
          /\ call' = [op |-> "assign", index |-> call.index, ref |-> call.ref]
    /\ UNCHANGED <<current_length_, return_value, wbuf, rbuf, lastIndex>>
    /\ Fixed

\* field.get_const(index) / field[index] on a const field
GetConst ==
    /\ pc = "run"
    /\ \E index \in GetIndices :
          call' = [op |-> "get_const", index |-> index,
                   value |-> get_const(data_, index)]
    /\ return_value' = NO_ERRORS
    /\ wbuf' = NoWriteBuffer /\ rbuf' = <<>>
    /\ lastIndex' = -2
    /\ UNCHANGED <<current_length_, data_>>
    /\ Fixed

\* field.get_const(index, value)
GetConstChecked ==
    /\ pc = "run"
    /\ \E index \in GetIndices, value \in OutValues :
          LET r == get_const_checked(current_length_, data_, index, value)
          IN  /\ return_value' = r.ret
              /\ call' = [op |-> "get_const_checked", index |-> index,
                           value_before |-> value, value |-> r.value]
    /\ wbuf' = NoWriteBuffer /\ rbuf' = <<>>
    /\ lastIndex' = -2
    /\ UNCHANGED <<current_length_, data_>>
    /\ Fixed

\* field.set(data, length)
Set ==
    /\ pc = "run"
    /\ \E data \in SetInputs :
          LET r == set(current_length_, data_, data, Len(data))
          IN  /\ current_length_' = r.len
              /\ data_' = r.data
              /\ return_value' = r.ret
              /\ call' = [op |-> "set", data |-> data, length |-> Len(data)]
    /\ wbuf' = NoWriteBuffer /\ rbuf' = <<>>
    /\ lastIndex' = -2
    /\ Fixed

\* field.set(rhs)
SetRhs ==
    /\ pc = "run"
    /\ \E rhs \in RhsFields :
          LET r == set_rhs(current_length_, data_, rhs)
          IN  /\ current_length_' = r.len
              /\ data_' = r.data
              /\ return_value' = r.ret
              /\ call' = [op |-> "set_rhs", rhs |-> rhs]
    /\ wbuf' = NoWriteBuffer /\ rbuf' = <<>>
    /\ lastIndex' = -2
    /\ Fixed

\* field = rhs with rhs of another capacity (with the same capacity the
\* class's own copy assignment is selected, not the template).
Assign ==
    /\ pc = "run"
    /\ \E rhs \in RhsFields :
          /\ rhs.max # MAX_LENGTH
          /\ LET r == operator_assign(current_length_, data_, rhs)
             IN  /\ current_length_' = r.len
                 /\ data_' = r.data
                 /\ call' = [op |-> "operator=", rhs |-> rhs]
    /\ return_value' = THIS
    /\ wbuf' = NoWriteBuffer /\ rbuf' = <<>>
    /\ lastIndex' = -2
    /\ Fixed

\* text.set(str), FieldString only
SetStr ==
    /\ pc = "run"
    /\ DATA_TYPE = "char"
    /\ \E str \in CStrings :
          LET r == set_str(current_length_, data_, str)
          IN  /\ current_length_' = r.len
              /\ data_' = r.data
              /\ call' = [op |-> "set_str", str |-> str]
    /\ return_value' = NO_ERRORS
    /\ wbuf' = NoWriteBuffer /\ rbuf' = <<>>
    /\ lastIndex' = -2
    /\ Fixed

\* field.clear()
Clear ==
    /\ pc = "run"
    /\ current_length_' = clear.len
    /\ data_' = clear.data
    /\ call' = [op |-> "clear"]
    /\ return_value' = NO_ERRORS
    /\ wbuf' = NoWriteBuffer /\ rbuf' = <<>>
    /\ lastIndex' = -1
    /\ Fixed

\* field.serialize_with_id(field_number, buffer, optional)
SerializeWithId ==
    /\ pc = "run"
    /\ \E field_number \in FieldNumbers, buffer \in WriteBuffers, optional \in BOOLEAN :
          LET r == serialize_with_id(current_length_, data_, field_number, buffer, optional)
          IN  /\ return_value' = r.ret
              /\ wbuf' = r.buffer
              /\ call' = [op |-> "serialize_with_id", field_number |-> field_number,
                           buffer |-> buffer, optional |-> optional]
    /\ rbuf' = <<>>
    /\ lastIndex' = -2
    /\ UNCHANGED <<current_length_, data_>>
    /\ Fixed

\* field.serialize(buffer)
Serialize ==
    /\ pc = "run"
    /\ \E buffer \in WriteBuffers :
          LET r == serialize(current_length_, data_, buffer)
          IN  /\ return_value' = r.ret
              /\ wbuf' = r.buffer
              /\ call' = [op |-> "serialize", buffer |-> buffer]
    /\ rbuf' = <<>>
    /\ lastIndex' = -2
    /\ UNCHANGED <<current_length_, data_>>
    /\ Fixed

\* field.deserialize(buffer)
Deserialize ==
    /\ pc = "run"
    /\ \E buffer \in ReadBuffers :
          LET r == deserialize(DATA_TYPE, current_length_, data_, buffer)
          IN  /\ current_length_' = r.len
              /\ data_' = r.data
              /\ return_value' = r.ret
              /\ rbuf' = r.buffer
              /\ call' = [op |-> "deserialize", buffer |-> buffer,
                           wire_type |-> LENGTH_DELIMITED]
    /\ wbuf' = NoWriteBuffer
    /\ lastIndex' = -2
    /\ Fixed

\* field.deserialize_check_type(buffer, wire_type)
DeserializeCheckType ==
    /\ pc = "run"
    /\ \E wire_type \in WireTypes :
       \E buffer \in (IF wire_type = LENGTH_DELIMITED THEN ReadBuffers ELSE OtherReadBuffers) :
          LET r == deserialize_check_type(DATA_TYPE, current_length_, data_, buffer, wire_type)
          IN  /\ current_length_' = r.len
              /\ data_' = r.data
              /\ return_value' = r.ret
              /\ rbuf' = r.buffer
              /\ call' = [op |-> "deserialize_check_type", buffer |-> buffer,
                           wire_type |-> wire_type]
    /\ wbuf' = NoWriteBuffer
    /\ lastIndex' = -2
    /\ Fixed

Next ==
    \/ Get
    \/ AssignThroughReference
    \/ GetConst
    \/ GetConstChecked
    \/ Set
    \/ SetRhs
    \/ Assign
    \/ SetStr
    \/ Clear
    \/ SerializeWithId
    \/ Serialize
    \/ Deserialize
    \/ DeserializeCheckType

Spec == Init /\ [][Next]_vars

----------------------------------------------------------------------------
(* The round trip: set on a sending field, serialize_with_id into an output
   transport with enough room, deserialize_check_type of the bytes produced
   into a freshly constructed field of the same capacity *)

\* The bytes serialize_with_id needs for a payload of the given length.
WireSize(field_number, length) ==
    Len(VarintBytes(MakeTag(field_number, LENGTH_DELIMITED)))
        + Len(VarintBytes(length)) + length

\* The reader of a message pops the tag varint before it hands the stream to
\* the field (MessageInterface::deserialize); nothing is popped from a stream
\* that holds no complete varint.
PopTag(buffer) ==
    LET t == DeserializeVarint(buffer)
    IN  IF t.ret = NO_ERRORS THEN t.buffer ELSE buffer

RTInit ==
    /\ MAX_LENGTH \in 1..MaxCapacity
    /\ current_length_ = 0
    /\ data_ = [i \in 0..(MAX_LENGTH - 1) |-> 0]
    /\ call = [op |-> "construct"]
    /\ return_value = NO_ERRORS
    /\ wbuf = NoWriteBuffer
    /\ rbuf = <<>>
    /\ lastIndex = -1
    /\ pc = "rt_set"
    /\ rx_length = 0
    /\ rx_data = [i \in 0..(MAX_LENGTH - 1) |-> 0]
    /\ rx_return = NO_ERRORS

\* sender.set(payload, L), 0 <= L <= MAX_LENGTH
RTSet ==
    /\ pc = "rt_set"
    /\ \E data \in SeqsOf(Elems(DATA_TYPE), 0, MAX_LENGTH) :
          LET r == set(current_length_, data_, data, Len(data))
          IN  /\ current_length_' = r.len
              /\ data_' = r.data
              /\ return_value' = r.ret
              /\ call' = [op |-> "set", data |-> data, length |-> Len(data)]
    /\ pc' = "rt_serialize"
    /\ UNCHANGED <<MAX_LENGTH, wbuf, rbuf, lastIndex, rx_length, rx_data, rx_return>>

\* sender.serialize_with_id(field_number, buffer, optional), buffer with enough room
RTSerializeWithId ==
    /\ pc = "rt_serialize"
    /\ \E field_number \in FieldNumbers, optional \in BOOLEAN, spare \in 0..1 :
          LET buffer == [bytes |-> <<>>,
                         size |-> WireSize(field_number, call.length) + spare]
              r == serialize_with_id(current_length_, data_, field_number, buffer, optional)
          IN  /\ return_value' = r.ret
              /\ wbuf' = r.buffer
              /\ call' = [op |-> "serialize_with_id", field_number |-> field_number,
                           buffer |-> buffer, optional |-> optional,
                           data |-> call.data, length |-> call.length]
    /\ pc' = "rt_deserialize"
    /\ UNCHANGED <<MAX_LENGTH, current_length_, data_, rbuf, lastIndex,
                   rx_length, rx_data, rx_return>>

\* FieldStringBytes receiver; receiver.deserialize_check_type(buffer, LENGTH_DELIMITED)
\* where buffer holds the bytes produced, either as they are or after the
\* reader has popped the tag.
RTDeserializeCheckType ==
    /\ pc = "rt_deserialize"
    /\ \E tag_popped \in BOOLEAN :
          LET buffer == IF tag_popped THEN PopTag(wbuf.bytes) ELSE wbuf.bytes
              r == deserialize_check_type(DATA_TYPE, 0, [i \in 0..(MAX_LENGTH - 1) |-> 0],
                                          buffer, LENGTH_DELIMITED)
          IN  /\ rx_length' = r.len
              /\ rx_data' = r.data
              /\ rx_return' = r.ret
              /\ rbuf' = r.buffer
              /\ call' = [op |-> "deserialize_check_type", buffer |-> buffer,
                           wire_type |-> LENGTH_DELIMITED, tag_popped |-> tag_popped,
                           field_number |-> call.field_number, optional |-> call.optional,
                           data |-> call.data, length |-> call.length]
    /\ pc' = "rt_done"
    /\ UNCHANGED <<MAX_LENGTH, current_length_, data_, return_value, wbuf, lastIndex>>

RTNext ==
    \/ RTSet
    \/ RTSerializeWithId
    \/ RTDeserializeCheckType

RoundTripSpec == RTInit /\ [][RTNext]_vars

----------------------------------------------------------------------------
(* Properties *)

\* C1: after any sequence of public operations, failed or not, the logical
\* length satisfies 0 <= current_length_ <= MAX_LENGTH.
LengthWithinCapacity == 0 <= current_length_ /\ current_length_ <= MAX_LENGTH

\* C1 witness: get() far out of range has grown the length to the capacity.
LengthAtCapacityAfterFarGet ==
    call.op = "get" /\ call.index = FarIndex /\ current_length_ = MAX_LENGTH

\* The receiving field holds exactly what was handed to set.
Reproduced ==
    /\ rx_return = NO_ERRORS
    /\ rx_length = call.length
    /\ \A i \in 0..(call.length - 1) : rx_data[i] = call.data[i + 1]

\* C2 as claimed: for every L in [0, MAX_LENGTH] and every payload,
\* deserialize_check_type of the bytes produced returns NO_ERRORS and
\* reproduces length and bytes.
RoundTripForEveryLength == pc = "rt_done" => Reproduced

\* C2 amended: the round trip returns NO_ERRORS and reproduces length and bytes
\* when the reader has popped the tag varint before it calls
\* deserialize_check_type, and L > 0 or the field was serialized as optional
\* (an empty field that is not optional puts nothing on the wire).
RoundTripWhenEmitted ==
    (pc = "rt_done" /\ call.tag_popped /\ (call.length > 0 \/ call.optional)) => Reproduced

\* C2 witness: a full-capacity payload with a byte above 127 went through a
\* two-byte tag and came back.
RoundTripDone ==
    /\ pc = "rt_done" /\ call.tag_popped
    /\ call.length = MAX_LENGTH /\ MAX_LENGTH >= 2
    /\ call.field_number = 16
    /\ call.data[1] = ToData(DATA_TYPE, 200)
    /\ Reproduced

\* The transport's room before the last call.
RoomBefore == get_available_size(call.buffer)

SetTooLongChangesNothing ==
    [][(call'.op = "set" /\ call'.length > MAX_LENGTH) =>
         (/\ return_value' = ARRAY_FULL
          /\ current_length_' = current_length_
          /\ data_' = data_)]_vars

\* C4 witness: a set that was too long, on a field that holds content.
SetTooLongOnContent ==
    /\ call.op = "set" /\ call.length > MAX_LENGTH
    /\ return_value = ARRAY_FULL
    /\ current_length_ > 0 /\ data_[0] # 0

\* The length varint of the stream handed to the last deserialize call.
Declared == DeserializeVarint(call.buffer)

\* The last call was deserialize, or deserialize_check_type with LENGTH_DELIMITED.
Deserialized ==
    /\ call.op \in {"deserialize", "deserialize_check_type"}
    /\ call.wire_type = LENGTH_DELIMITED

\* C5: deserialize of a stream whose decoded length exceeds MAX_LENGTH returns
\* ARRAY_FULL and leaves length and every storage element as they were.
DeserializeTooLongChangesNothing ==
    [][(/\ call'.op \in {"deserialize", "deserialize_check_type"}
        /\ call'.wire_type = LENGTH_DELIMITED
        /\ DeserializeVarint(call'.buffer).ret = NO_ERRORS
        /\ DeserializeVarint(call'.buffer).value > MAX_LENGTH) =>
         (/\ return_value' = ARRAY_FULL
          /\ current_length_' = current_length_
          /\ data_' = data_)]_vars

\* C5 witness: a declared length beyond the capacity, on a field that holds content.
DeserializeTooLongOnContent ==
    /\ Deserialized
    /\ Declared.ret = NO_ERRORS /\ Declared.value > MAX_LENGTH
    /\ return_value = ARRAY_FULL
    /\ current_length_ > 0 /\ data_[0] # 0

\* The stream declared a length N and supplied fewer than N payload bytes.
Truncated ==
    /\ Deserialized
    /\ Declared.ret = NO_ERRORS
    /\ Len(Declared.buffer) < Declared.value

\* C6 as claimed: a stream that declares N and supplies fewer than N payload
\* bytes makes deserialize return END_OF_BUFFER, for every N.
TruncatedIsEndOfBuffer == Truncated => return_value = END_OF_BUFFER

\* C6 amended: a stream that declares N <= MAX_LENGTH and supplies fewer than N
\* payload bytes makes deserialize return END_OF_BUFFER (a declared length
\* above MAX_LENGTH is answered ARRAY_FULL before any payload byte is asked for).
TruncatedFittingIsEndOfBuffer ==
    (Truncated /\ Declared.value <= MAX_LENGTH) => return_value = END_OF_BUFFER

\* C6 witness: MAX_LENGTH declared, one byte short.
TruncatedByOne ==
    /\ Truncated
    /\ Declared.value = MAX_LENGTH
    /\ Len(Declared.buffer) = MAX_LENGTH - 1
    /\ return_value = END_OF_BUFFER

\* What the last serialize call appended to the output transport.
Written == SubSeq(wbuf.bytes, Len(call.buffer.bytes) + 1, Len(wbuf.bytes))

\* The tag varint of the last serialize_with_id call: (field_number << 3) | 2.
TagBytes == VarintBytes(call.field_number * 8 + 2)

\* The older content of the output transport is still in front.
Appended ==
    /\ wbuf.size = call.buffer.size
    /\ Len(wbuf.bytes) >= Len(call.buffer.bytes)
    /\ SubSeq(wbuf.bytes, 1, Len(call.buffer.bytes)) = call.buffer.bytes

\* C7 as claimed: on a zero-length field serialize_with_id with optional set
\* writes exactly the tag varint and a length varint 0; without it, it writes
\* nothing and returns NO_ERRORS.
EmptyFieldEmits ==
    (call.op = "serialize_with_id" /\ current_length_ = 0) =>
        /\ Appended
        /\ IF call.optional
           THEN Written = TagBytes \o <<0>>
           ELSE Written = <<>> /\ return_value = NO_ERRORS

\* C7 amended: on a zero-length field serialize_with_id with optional set
\* writes exactly the tag varint and a length varint 0 and returns NO_ERRORS
\* when the transport has room for both varints; with less room it returns
\* BUFFER_FULL after the tag alone or nothing was written. Without optional it
\* writes nothing and returns NO_ERRORS.
EmptyFieldEmitsGivenRoom ==
    (call.op = "serialize_with_id" /\ current_length_ = 0) =>
        /\ Appended
        /\ IF call.optional
           THEN IF RoomBefore >= Len(TagBytes) + 1
                THEN Written = TagBytes \o <<0>> /\ return_value = NO_ERRORS
                ELSE Written \in {<<>>, TagBytes} /\ return_value = BUFFER_FULL
           ELSE Written = <<>> /\ return_value = NO_ERRORS

\* C7 witness: an empty optional field was emitted behind older content.
EmptyOptionalEmitted ==
    /\ call.op = "serialize_with_id" /\ current_length_ = 0
    /\ call.optional /\ call.field_number = 16
    /\ call.buffer.bytes = <<255>>
    /\ wbuf.bytes = <<255, 130, 1, 0>>
    /\ return_value = NO_ERRORS

\* The last call was get(i) and the calls since the field was cleared (or
\* constructed) were get(0), get(1), .., get(i), with or without assignments
\* through the references returned.
IncreasingGet == call.op = "get" /\ lastIndex = call.index

\* C8 as claimed: get() at indices 0, 1, 2, .. on a freshly cleared field yields
\* get_length() = index + 1 after each call.
GrowthOnAccess == IncreasingGet => current_length_ = call.index + 1

\* C8 amended: get() at indices 0, 1, 2, .. below MAX_LENGTH on a freshly
\* cleared field yields get_length() = index + 1 after each call (an index at
\* or beyond MAX_LENGTH yields MAX_LENGTH).
GrowthOnAccessBelowCapacity ==
    IncreasingGet =>
        current_length_ = (IF call.index < MAX_LENGTH THEN call.index + 1 ELSE MAX_LENGTH)

\* C8 witness: the run has reached the last slot.
GrownToLastSlot ==
    /\ IncreasingGet
    /\ call.index = MAX_LENGTH - 1 /\ MAX_LENGTH >= 2
    /\ current_length_ = MAX_LENGTH

\* C9: a successful serialize_with_id on a field with current_length_ > 0
\* appends the tag varint, the varint of current_length_ and the first
\* current_length_ elements, in this order and nothing else.
WireFormat ==
    (call.op = "serialize_with_id" /\ return_value = NO_ERRORS /\ current_length_ > 0) =>
        /\ Appended
        /\ Written = TagBytes \o VarintBytes(current_length_)
                       \o [i \in 1..current_length_ |-> ToByte(data_[i - 1])]

\* C9 witness: a field shorter than its capacity, with stale content behind
\* its length, was put on the wire behind older content.
WireFormatWritten ==
    /\ call.op = "serialize_with_id" /\ return_value = NO_ERRORS
    /\ current_length_ = 1 /\ MAX_LENGTH >= 2
    /\ data_[0] = ToData(DATA_TYPE, 200) /\ data_[1] = 65
    /\ call.field_number = 16
    /\ wbuf.bytes = <<255, 130, 1, 1, 200>>

\* The payload bytes the last deserialize call popped after the length varint.
PoppedPayload == Len(Declared.buffer) - Len(rbuf)

\* C10: once the length varint N is read, deserialize pops at most N payload
\* bytes in every outcome and exactly N when it succeeds; what follows stays
\* in the input transport.
PopsOnlyDeclared ==
    (Deserialized /\ Declared.ret = NO_ERRORS) =>
        /\ PoppedPayload >= 0
        /\ PoppedPayload <= Declared.value
        /\ (return_value = NO_ERRORS => PoppedPayload = Declared.value)
        /\ rbuf = SubSeq(Declared.buffer, PoppedPayload + 1, Len(Declared.buffer))

\* C10 witness: a full payload was read and the sibling's byte was left.
SiblingByteLeft ==
    /\ Deserialized /\ Declared.ret = NO_ERRORS
    /\ return_value = NO_ERRORS
    /\ Declared.value = MAX_LENGTH
    /\ rbuf = <<65>>

\* C11: FieldString::set(str) with a string of n characters, from any prior
\* state, yields get_length() = min(n, MAX_LENGTH) and the first get_length()
\* characters of str; the terminator is stored at index get_length() exactly
\* when get_length() < MAX_LENGTH (there is no such index otherwise), so for
\* n < MAX_LENGTH the buffer reads as the terminated text str.
TextAssignment ==
    (call.op = "set_str" /\ ~call.str.null) =>
        LET n == Len(call.str.chars)
        IN  /\ current_length_ = (IF n < MAX_LENGTH THEN n ELSE MAX_LENGTH)
            /\ \A i \in 0..(current_length_ - 1) : data_[i] = call.str.chars[i + 1]
            /\ \A i \in 0..(current_length_ - 1) : data_[i] # 0
            /\ (current_length_ < MAX_LENGTH => data_[current_length_] = 0)
            /\ DOMAIN data_ = 0..(MAX_LENGTH - 1)

\* C11 witness: a one-character string was assigned with room for its terminator.
TextAssignedWithTerminator ==
    /\ call.op = "set_str" /\ ~call.str.null
    /\ call.str.chars = <<65>>
    /\ MAX_LENGTH = 2
    /\ current_length_ = 1 /\ data_[0] = 65 /\ data_[1] = 0

\* C12: the checked read returns INDEX_OUT_OF_BOUND and leaves value unwritten
\* exactly when index >= current_length_, and otherwise returns NO_ERRORS with
\* value the element at index; the unchecked read returns the element at
\* min(index, MAX_LENGTH - 1) and signals nothing; neither changes
\* current_length_ or the storage.
TwoReadTiers ==
    [][
        /\ (call'.op = "get_const_checked") =>
            (/\ current_length_' = current_length_ /\ data_' = data_
             /\ IF call'.index >= current_length_
                THEN return_value' = INDEX_OUT_OF_BOUND /\ call'.value = call'.value_before
                ELSE return_value' = NO_ERRORS /\ call'.value = data_[call'.index])
        /\ (call'.op = "get_const") =>
            (/\ current_length_' = current_length_ /\ data_' = data_
             /\ return_value' = NO_ERRORS
             /\ call'.value = data_[IF call'.index < MAX_LENGTH THEN call'.index
                                                                 ELSE MAX_LENGTH - 1])
    ]_vars

\* C12 witness: the checked read refused an index inside the capacity whose
\* slot holds stale content.
CheckedReadRefused ==
    /\ call.op = "get_const_checked"
    /\ return_value = INDEX_OUT_OF_BOUND
    /\ call.index = current_length_ /\ call.index < MAX_LENGTH
    /\ data_[call.index] # 0
    /\ call.value = call.value_before

\* C13: deserialize_check_type with a wire type other than LENGTH_DELIMITED
\* returns INVALID_WIRETYPE, leaves the field's length and storage unchanged and
\* pops no byte from the input transport.
WrongWireTypeRejected ==
    [][
        (call'.op = "deserialize_check_type" /\ call'.wire_type # LENGTH_DELIMITED) =>
            (/\ return_value' = INVALID_WIRETYPE
             /\ current_length_' = current_length_
             /\ data_' = data_
             /\ rbuf' = call'.buffer)
    ]_vars

\* C13 witness: a non-empty field was offered, with wire type VARINT, a buffer
\* that deserialize would have accepted, and still holds its content.
WrongWireTypeOnContent ==
    /\ call.op = "deserialize_check_type"
    /\ call.wire_type = VARINT
    /\ call.buffer = <<1, 65>>
    /\ rbuf = <<1, 65>>
    /\ return_value = INVALID_WIRETYPE
    /\ current_length_ = 1 /\ data_[0] = -56

\* C14: set(rhs) from another field of the same element type and any capacity
\* always returns NO_ERRORS, whatever the current length of rhs and the capacity
\* of the target.
SetRhsAlwaysNoErrors ==
    call.op = "set_rhs" => return_value = NO_ERRORS

\* C15: get(index), for any index and any prior state, sets current_length_ to
\* max(previous length, min(index, MAX_LENGTH - 1) + 1) and changes no storage
\* element: the length never shrinks and the elements between the previous
\* length and the index keep what was stored there.
GetGrowsAndKeepsStorage ==
    [][
        (call'.op = "get") =>
            LET limited == IF call'.index < MAX_LENGTH - 1 THEN call'.index
                                                           ELSE MAX_LENGTH - 1
            IN  /\ current_length_' = (IF limited + 1 > current_length_
                                       THEN limited + 1 ELSE current_length_)
                /\ current_length_' >= current_length_
                /\ data_' = data_
    ]_vars

\* C15 witness: an empty field whose storage holds stale content was grown to
\* length 2 by get(1), and the stale elements are still there.
GrownOverStaleContent ==
    /\ call.op = "get"
    /\ call.length_before = 0
    /\ call.index = 1 /\ MAX_LENGTH = 2
    /\ current_length_ = 2
    /\ data_[0] # 0 /\ data_[1] # 0

\* C16: a successful set(data, length) with length <= MAX_LENGTH sets
\* current_length_ to length and the first length elements to data, and leaves
\* every storage element at an index >= length as it was before the call.
SetKeepsTail ==
    [][
        (call'.op = "set" /\ call'.length <= MAX_LENGTH) =>
            (/\ return_value' = NO_ERRORS
             /\ current_length_' = call'.length
             /\ \A i \in 0..(call'.length - 1) : data_'[i] = call'.data[i + 1]
             /\ \A i \in call'.length..(MAX_LENGTH - 1) : data_'[i] = data_[i]
             /\ DOMAIN data_' = DOMAIN data_)
    ]_vars

\* C16 witness: a set of one element on a field of capacity 2 whose second
\* slot still holds the tail of a longer content.
ShorterSetKeptTail ==
    /\ call.op = "set" /\ call.length = 1
    /\ return_value = NO_ERRORS
    /\ MAX_LENGTH = 2
    /\ current_length_ = 1 /\ data_[0] = call.data[1]
    /\ data_[1] # 0

\* The payload bytes the stream of the last deserialize call supplied.
Supplied == Declared.buffer

\* C17: when deserialize returns END_OF_BUFFER for a declared length
\* N <= MAX_LENGTH of which only k < N payload bytes were supplied, the field's
\* length is k, its first k elements are the supplied bytes in order and every
\* other storage element is zero.
NoRollbackOnEndOfBuffer ==
    (/\ Truncated
     /\ Declared.value <= MAX_LENGTH
     /\ return_value = END_OF_BUFFER) =>
        (/\ current_length_ = Len(Supplied)
         /\ \A i \in 0..(Len(Supplied) - 1) : data_[i] = ToData(DATA_TYPE, Supplied[i + 1])
         /\ \A i \in Len(Supplied)..(MAX_LENGTH - 1) : data_[i] = 0
         /\ rbuf = <<>>)

\* C17 witness: two bytes declared, one supplied; the field holds that one
\* byte and a zero.
PartiallyRead ==
    /\ Truncated
    /\ MAX_LENGTH = 2 /\ Declared.value = 2
    /\ Supplied = <<200>>
    /\ return_value = END_OF_BUFFER
    /\ current_length_ = 1 /\ data_[0] = -56 /\ data_[1] = 0

\* The last serialize_with_id call got past the check of the available size.
StepsEntered ==
    /\ call.op = "serialize_with_id"
    /\ (0 < current_length_) \/ call.optional
    /\ current_length_ <= RoomBefore

\* C18: within one serialize_with_id call the steps run in the order tag
\* write, length write, payload write, and the first failing step ends the
\* call with its error: a failed tag write leaves nothing written, a failed
\* length write leaves the tag only, a failed payload write leaves the tag and
\* the length varint.
FirstFailureEndsCall ==
    StepsEntered =>
        LET tag_fits == Len(TagBytes) <= RoomBefore
            length_fits == Len(TagBytes) + Len(VarintBytes(current_length_)) <= RoomBefore
        IN  /\ Appended
            /\ ~tag_fits => (return_value = BUFFER_FULL /\ Written = <<>>)
            /\ (tag_fits /\ ~length_fits) =>
                    (return_value = BUFFER_FULL /\ Written = TagBytes)
            /\ (length_fits /\ return_value # NO_ERRORS) =>
                    (/\ return_value = BUFFER_FULL
                     /\ Written = TagBytes \o VarintBytes(current_length_))

\* C18 witness: a one-element field, a two-byte tag and room for one byte:
\* the tag write failed and the length varint, which would have fitted, was
\* not written.
TagWriteFailed ==
    /\ StepsEntered
    /\ call.field_number = 16
    /\ current_length_ = 1 /\ RoomBefore = 1
    /\ return_value = BUFFER_FULL
    /\ wbuf = call.buffer

\* C19: operator= between two fields of different capacities never
\* truncates: a source whose length is <= MAX_LENGTH of the target gives the
\* target its length and its first length elements; a longer source leaves
\* the target's length and storage unchanged, and no error is handed back.
AssignNeverTruncates ==
    [][
        (call'.op = "operator=") =>
            (/\ return_value' = THIS
             /\ IF call'.rhs.length <= MAX_LENGTH
                THEN /\ current_length_' = call'.rhs.length
                     /\ \A i \in 0..(call'.rhs.length - 1) :
                            data_'[i] = call'.rhs.data[i + 1]
                ELSE /\ current_length_' = current_length_
                     /\ data_' = data_)
    ]_vars

\* C19 witness: a field that holds content was assigned a longer field of a
\* larger capacity and still holds its content.
AssignTooLongOnContent ==
    /\ call.op = "operator="
    /\ call.rhs.max > MAX_LENGTH /\ call.rhs.length > MAX_LENGTH
    /\ return_value = THIS
    /\ current_length_ > 0 /\ data_[0] # 0
    /\ data_[0] # call.rhs.data[1]

====
